---- MODULE Spec2Model ----
\* Portal landing page: the click-driven activation sequence of the
\* interaction module (interactions.js), the legacy single-file script with
\* its two pointerdown listeners, and the render loop of main.js.
\*
\* Units: times are milliseconds, progress and eased values are permille
\* (0..1000), positions are 1/100 scene units, the field of view is in
\* 1/1000 degree, the bloom strength in 1/1000.  The browser clock is kept as
\* the elapsed time of every closure that reads it (performance.now() or the
\* frame timestamp minus the closure's start time), saturated at the duration
\* from which the closure's min(1, elapsed/duration) no longer changes.
EXTENDS Integers, Sequences, FiniteSets, TLC

\* ------------------------------------------------------------------ bounds
\* accepted activations per behaviour
MaxRuns == 2
\* milliseconds the clock advances between two points at which the browser
\* runs callbacks
Step == 425
\* disturbances per behaviour: window.resetPortalState() calls and times the
\* page is hidden, counted together
MaxDisturbances == 1
\* frames of the render loop
MaxFrames == 6
\* milliseconds by which performance.now(), read in an event handler, can be
\* ahead of the timestamp of the frame in which the handler runs
MaxLag == 1
\* milliseconds of performance.now() covered for one flight
MaxClock == 3400
\* milliseconds between two points at which loading.js is called or its timers
\* fire
LoadingStep == 40
\* milliseconds of performance.now() covered for loading.js
MaxLoadingTime == 600
\* calls of enableAutoHide, hideLoading and showLoading per behaviour
MaxLoadingCalls == 3
\* shakes started per behaviour
MaxShakes == 2
\* calls of the start functions and of stopAberration per behaviour
MaxAberrationCalls == 2
\* milliseconds of Date.now() between two points at which aberration.js runs
\* a frame or a timer, at most
AberrationStep == 50

\* ------------------------------------------------------- program constants
ActivationDuration == 2000
FlightDuration == 2500
FailsafeGrace == 2000
FlashThreshold == 850
TunnelFrom == 50
FlashResetDelay == 1
ReturnDelay == 4
ReturnDuration == 800
ResetDelay == 200
TargetZ == -5000
InitialCamZ == 600
InitialFov == 50000
BaseFov == 75000
BaseBloom == 2900
TargetMix == 1000
\* the portal mesh is not among scene.children
PortalMeshNotFound == FALSE

\* createPortalGeometry adds the portal mesh (PlaneGeometry, renderOrder 1000)
\* directly to the scene, so resetPortalToFullVisibility finds it
PortalMeshInScene == TRUE

\* loading.js
AutoHideWait == 80
DefaultDelay == 80
HideTimerDelay == 350
\* performance.now() when the first module script runs: later than the time
\* origin
TimeOfLoad == 1

\* shake.js: the defaults of startShake, the three shakes interactions.js
\* starts, and the deltaTime main.js passes to updateShake (0.016 s)
DefaultIntensity == 1000
DefaultShakeDuration == 500
ActivationShakeIntensity == 800
ActivationShakeDuration == 600
EntryShakeIntensity == 1200
EntryShakeDuration == 800
FlashShakeIntensity == 1500
FlashShakeDuration == 150
FrameDelta == 16

\* aberration.js (amounts in 1/1000000): aberrationData.baseAmount, the
\* delay of the timer set by the last frame of an animation, and the
\* duration of the return animation, which is also the delay of the timer
\* that clears isAnimating
BaseAmount == 2000
ReturnToBaseDelay == 100
ReturnToBaseDuration == 1000
ClearAnimatingDelay == 1000

\* legacy single-file script
LegacyFlightDuration == 900
LegacyFlashThreshold == 780
LegacyMenuDelay == 400
LegacyFlightEndDelay == 50
LegacyTargetZ == -600

RunIds == 1..MaxRuns

VARIABLES
    isAnimating,     \* module flag: an animation is running
    portalActivated, \* module flag: the portal was activated
    entering,        \* module flag: the flight animation is running
    flashOpacity,    \* flashEl.style.opacity: "", "0" or "1"
    camZ,            \* camera.position.z
    camFov,          \* camera.fov
    tunnelActive,    \* tunnel.js tunnelActive
    colorMix,        \* portalUniforms.colorA/colorB, permille towards cyan/purple
    bloom,           \* bloomPass.strength
    hintHidden,      \* .hint opacity set to 0
    fx,              \* number of effect calls made (sound, shake, particles)
    runs,            \* number of accepted activations so far
    run,             \* per accepted activation: the closures' captured values
    timers,          \* pending setTimeout callbacks
    raf,             \* pending requestAnimationFrame callbacks, in order
    frameLeft,       \* callbacks of the current frame still to run
    frameDone,       \* the frame of the current instant has been run
    visible,         \* the page is visible (frames are delivered)
    resets,          \* window.resetPortalState() calls made
    hides,           \* times the page was hidden
    lastError,       \* interactionStats.lastError
    radialActive,    \* legacy script: the radial menu has class 'active'
    loop,            \* the render loop of main.js
    clock,           \* frame timestamps and performance.now() of one flight
    boot,            \* initialize() of main.js
    loading,         \* loading.js: overlay, auto-hide, pending hide timers
    shake,           \* shake.js: isShaking, shakeData, camera, renderer element
    aberration       \* aberration.js: aberrationData, pending frames and timers

vars == <<isAnimating, portalActivated, entering, flashOpacity, camZ, camFov,
          tunnelActive, colorMix, bloom, hintHidden, fx, runs, run, timers,
          raf, frameLeft, frameDone, visible, resets, hides, lastError, radialActive, loop,
          clock, boot, loading, shake, aberration>>

\* the state of the modules outside the interaction module and the render loop
modules == <<clock, boot, loading, shake, aberration>>

flags == <<isAnimating, portalActivated, entering>>
scene == <<flashOpacity, camZ, camFov, tunnelActive, colorMix, bloom, hintHidden>>
seqVars == <<isAnimating, portalActivated, entering, flashOpacity, camZ, camFov,
             tunnelActive, colorMix, bloom, hintHidden, fx, runs, run, timers,
             raf, frameLeft, frameDone, visible, resets, hides>>

\* ----------------------------------------------------------- pure helpers
Min(a, b) == IF a < b THEN a ELSE b

\* Math.min(1, elapsed / duration)
Progress(elapsed, duration) == Min(1000, (elapsed * 1000) \div duration)

\* 1 - Math.pow(1 - progress, 3)
EaseOutCubic(p) == 1000 - (((1000 - p) * (1000 - p) * (1000 - p)) \div 1000000)

\* lerpVectors / lerpColors: a + (b - a) * t
Lerp(a, b, t) == a + (((b - a) * t) \div 1000)

\* (progress - 0.05) / 0.8
TunnelProgress(p) == ((p - TunnelFrom) * 1000) \div 800

\* (Math.random() - 0.5) * tunnelProgress * 0.02: the offsets range over
\* (-0.01, 0.01) * tunnelProgress, taken at the two extremes and 0
ShakeOffsets(p) == { s * (TunnelProgress(p) \div 1000) : s \in {-1, 0, 1} }

InTunnel(p) == p >= TunnelFrom /\ p < FlashThreshold

\* ------------------------------------------------------------- run records
NoRun == [age |-> 0, retAge |-> 0, startPos |-> 0, currentPos |-> 0,
          startColor |-> 0, flashFired |-> 0, menuCalls |-> 0,
          tailDone |-> FALSE, aborted |-> FALSE]

Timer(k, r, d) == [kind |-> k, run |-> r, rem |-> d]
HasTimer(k, r) == \E t \in timers : t.kind = k /\ t.run = r
Pending(k, r) == \E i \in 1..Len(raf) : raf[i] = <<k, r>>

\* a sequence is running or completing: it still has a frame chain or one of
\* its completion timers pending (the failsafe timer is a watchdog, not a
\* stage of the sequence)
Active(r) ==
    \/ Pending("flight", r) \/ Pending("colour", r) \/ Pending("camret", r)
    \/ HasTimer("flashReset", r) \/ HasTimer("return", r) \/ HasTimer("reset", r)

ActiveRuns == { r \in RunIds : Active(r) }
Idle == ~isAnimating /\ ~portalActivated /\ ~entering

\* no pending timer or frame callback refers to the closure of run r
Unreferenced(r, tm, q) ==
    /\ ~\E t \in tm : t.run = r
    /\ ~\E i \in 1..Len(q) : q[i][2] = r

\* the captured values of a closure no callback refers to are gone; what is
\* kept of such a run is what it has done
Collect(rr, tm, q) ==
    [r \in RunIds |->
       IF rr[r].age > 0 /\ Unreferenced(r, tm, q)
       THEN [rr[r] EXCEPT !.startPos = 0, !.currentPos = 0, !.startColor = 0]
       ELSE rr[r]]

MarkAborted(rs) == [r \in RunIds |-> IF r \in rs THEN [run[r] EXCEPT !.aborted = TRUE] ELSE run[r]]

\* ------------------------------------------------------------------- Init
\* the clock of one flight before enterPortal: performance.now() is now, the
\* frame in production (if any) carries the timestamp frameTime
InitClock == [now |-> 0, frameTime |-> 0, inFrame |-> FALSE, frameDone |-> FALSE,
              startTime |-> -1,
              pending |-> FALSE, frames |-> 0, elapsed |-> 0, progress |-> 0,
              prev |-> 0, finished |-> FALSE]

\* initialize() of main.js before its first statement
InitBoot == [pc |-> 1, failed |-> "none", loaded |-> {}, interaction |-> FALSE,
             autoHide |-> FALSE, loopStarted |-> FALSE, caught |-> FALSE,
             errorShown |-> FALSE, settled |-> "pending"]

\* loading.js after its evaluation: the overlay of index.html is displayed,
\* startTime = null (0), autoHideEnabled = true
InitLoading == [now |-> TimeOfLoad, display |-> "flex", opacity |-> 1, barWidth |-> 0,
                autoHideEnabled |-> TRUE, startTime |-> 0, delay |-> DefaultDelay,
                hideTimers |-> {}, calls |-> 0,
                \* what has happened since the last enableAutoHide
                enabled |-> FALSE, autoHides |-> 0, fullCalls |-> 0,
                lateCheck |-> FALSE, earlyHide |-> FALSE,
                \* showLoading has returned and hideLoading was not called since
                shown |-> FALSE]

\* shake.js after initializeShakeSystem(camera, renderer): no shake, the
\* camera at its initial position
InitShake == [isShaking |-> FALSE, intensity |-> 0, duration |-> 0, elapsed |-> 0,
              type |-> "both", pattern |-> "none",
              origPos |-> InitialCamZ * 10, origRot |-> 0,
              camPos |-> InitialCamZ * 10, camRot |-> 0, transform |-> "",
              starts |-> 0,
              \* about the current or last shake: the camera values when it
              \* was started, the dt*1000 accumulated, whether it displaced
              \* anything, how it ended, and whether updateShake ran after
              capturedPos |-> InitialCamZ * 10, capturedRot |-> 0, accum |-> 0,
              displaced |-> FALSE, ended |-> "none", updatedAfterEnd |-> FALSE]

\* aberration.js after initializeChromaticAberration: aberrationData as
\* declared, no animate closure waiting for a frame, no timer pending
InitAberration == [baseAmount |-> BaseAmount, currentAmount |-> BaseAmount,
                   targetAmount |-> BaseAmount, isAnimating |-> FALSE,
                   passAmount |-> BaseAmount,
                   anims |-> <<>>, timers |-> <<>>, calls |-> 0,
                   \* the frame of the current instant has been run
                   frameDone |-> FALSE]

\* the render loop before initialize() has started it
InitLoop == [frame |-> 0, shakeLoaded |-> FALSE, particleLoaded |-> FALSE,
             shakeCalls |-> 0, shakeThrew |-> 0, particleCalls |-> 0,
             particleThrew |-> 0, hoverCalls |-> 0, renders |-> 0,
             autoHideChecks |-> 0, requested |-> FALSE]

Init ==
    /\ isAnimating = FALSE
    /\ portalActivated = FALSE
    /\ entering = FALSE
    /\ flashOpacity = ""
    /\ camZ = InitialCamZ
    /\ camFov = InitialFov
    /\ tunnelActive = FALSE
    /\ colorMix = 0
    /\ bloom = BaseBloom
    /\ hintHidden = FALSE
    /\ fx = 0
    /\ runs = 0
    /\ run = [r \in RunIds |-> NoRun]
    /\ timers = {}
    /\ raf = <<>>
    /\ frameLeft = 0
    /\ frameDone = FALSE
    /\ visible = TRUE
    /\ resets = 0
    /\ hides = 0
    /\ lastError = "null"
    /\ radialActive = FALSE
    /\ loop = InitLoop
    /\ clock = InitClock
    /\ boot = InitBoot
    /\ loading = InitLoading
    /\ shake = InitShake
    /\ aberration = InitAberration

\* ------------------------------------------------ activatePortal/enterPortal
\* activatePortal: if (isAnimating || portalActivated) return
ActivateGuard(isAn, pAct) == ~(isAn \/ pAct)

\* a listener that does not look at the hit test
ListenerAcceptsAnyClick(hit, isAn, pAct) == ~isAn /\ ~pAct

\* pointerdown listener: the click starts an activation
ListenerAccepts(hit, isAn, pAct) == ~isAn /\ hit /\ ~pAct

\* activatePortal(camera, portalUniforms, bloomPass), enterPortal(camera)
\* included, up to and including the first synchronous animateActivation()
ActivatePortal ==
    IF ~ActivateGuard(isAnimating, portalActivated)
    THEN UNCHANGED seqVars
    ELSE /\ runs < MaxRuns
         /\ LET r == runs + 1
                fly == ~entering
            IN  /\ runs' = r
                /\ isAnimating' = TRUE
                /\ portalActivated' = TRUE
                /\ hintHidden' = TRUE
                /\ entering' = TRUE
                \* three activation effects, three hyperspace effects
                /\ fx' = fx + 3 + (IF fly THEN 3 ELSE 0)
                /\ tunnelActive' = (IF fly THEN TRUE ELSE tunnelActive)
                /\ timers' = (IF fly
                              THEN timers \cup {Timer("failsafe", r, FlightDuration + FailsafeGrace)}
                              ELSE timers)
                /\ run' = [run EXCEPT ![r] = [NoRun EXCEPT !.startPos = camZ,
                                                           !.startColor = colorMix]]
                \* animateActivation() at elapsed 0
                /\ colorMix' = Lerp(colorMix, TargetMix, EaseOutCubic(Progress(0, ActivationDuration)))
                /\ bloom' = BaseBloom + EaseOutCubic(Progress(0, ActivationDuration))
                /\ raf' = (IF fly THEN Append(raf, <<"flight", r>>) ELSE raf)
                          \o <<<<"colour", r>>>>
                /\ UNCHANGED <<flashOpacity, camZ, camFov, frameLeft, frameDone, visible, resets, hides>>

\* window 'pointerdown' listener of initializePortalInteraction
PointerDown(hit) ==
    /\ frameLeft = 0
    /\ UNCHANGED <<loop, radialActive, modules>>
    /\ IF isAnimating
       THEN /\ lastError' = "Animation laeuft bereits"
            /\ UNCHANGED seqVars
       ELSE IF ListenerAccepts(hit, isAnimating, portalActivated)
            THEN /\ ActivatePortal
                 /\ UNCHANGED lastError
            ELSE /\ lastError' = (IF ~hit THEN "Portal nicht getroffen"
                                           ELSE "Portal bereits aktiviert")
                 /\ UNCHANGED seqVars

\* the exported activatePortal called directly
ActivatePortalCall ==
    /\ frameLeft = 0
    /\ UNCHANGED <<loop, radialActive, lastError, modules>>
    /\ ActivatePortal

\* window.resetPortalState()
ResetPortalState ==
    /\ frameLeft = 0
    /\ resets + hides < MaxDisturbances
    /\ resets' = resets + 1
    /\ isAnimating' = FALSE
    /\ portalActivated' = FALSE
    /\ entering' = FALSE
    /\ run' = MarkAborted(ActiveRuns)
    /\ lastError' = "null"
    /\ UNCHANGED <<scene, fx, runs, timers, raf, frameLeft, frameDone, visible, hides, radialActive, loop, modules>>

\* ------------------------------------------------------------------ frames
\* the browser starts a frame: the callbacks registered so far run in order,
\* callbacks they register run in the next frame
BeginFrame ==
    /\ frameLeft = 0
    /\ visible
    /\ ~frameDone
    /\ raf # <<>>
    /\ frameLeft' = Len(raf)
    /\ frameDone' = TRUE
    /\ UNCHANGED <<flags, scene, fx, runs, run, timers, raf, visible, resets, hides, lastError, radialActive, loop, modules>>

\* the page is hidden (tab in the background): requestAnimationFrame callbacks
\* are no longer delivered, timers still are
Hide ==
    /\ frameLeft = 0
    /\ visible
    /\ resets + hides < MaxDisturbances
    /\ hides' = hides + 1
    /\ visible' = FALSE
    /\ UNCHANGED <<flags, scene, fx, runs, run, timers, raf, frameLeft, frameDone, resets, lastError, radialActive, loop, modules>>

\* the page is visible again
Show ==
    /\ frameLeft = 0
    /\ ~visible
    /\ visible' = TRUE
    /\ UNCHANGED <<flags, scene, fx, runs, run, timers, raf, frameLeft, frameDone, resets, hides, lastError, radialActive, loop, modules>>

\* animateActivation of run r
AnimateActivation(r) ==
    /\ frameLeft > 0
    /\ Head(raf) = <<"colour", r>>
    /\ LET p == Progress(run[r].age, ActivationDuration)
           eased == EaseOutCubic(p)
       IN  /\ colorMix' = Lerp(run[r].startColor, TargetMix, eased)
           /\ bloom' = BaseBloom + eased
           /\ IF p < 1000
              THEN /\ raf' = Append(Tail(raf), <<"colour", r>>)
                   /\ UNCHANGED isAnimating
              ELSE /\ raf' = Tail(raf)
                   /\ isAnimating' = FALSE
    /\ frameLeft' = frameLeft - 1
    /\ UNCHANGED <<portalActivated, entering, flashOpacity, camZ, camFov,
                   tunnelActive, hintHidden, fx, runs, run, timers, frameDone, visible, resets, hides, lastError, radialActive, loop, modules>>

\* the flash trigger of animateFrame is due
FlashDue(p, opacity) == p >= FlashThreshold /\ (opacity = "0" \/ opacity = "")

\* animateFrame of run r
AnimateFrame(r) ==
    /\ frameLeft > 0
    /\ Head(raf) = <<"flight", r>>
    /\ LET p == Progress(run[r].age, FlightDuration)
           flash == FlashDue(p, flashOpacity)
       IN  /\ IF InTunnel(p)
              THEN /\ \E s \in ShakeOffsets(p) :
                         camZ' = Lerp(run[r].startPos, TargetZ, p) + s
                   /\ camFov' = BaseFov - (TunnelProgress(p) * 30)
              ELSE /\ camZ' = Lerp(run[r].startPos, TargetZ, p)
                   /\ UNCHANGED camFov
           /\ IF flash
              THEN /\ fx' = fx + 3
                   /\ flashOpacity' = "1"
                   /\ run' = [run EXCEPT ![r].flashFired = @ + 1]
              ELSE UNCHANGED <<fx, flashOpacity, run>>
           /\ IF p < 1000
              THEN /\ raf' = Append(Tail(raf), <<"flight", r>>)
                   /\ UNCHANGED timers
              ELSE /\ raf' = Tail(raf)
                   /\ timers' = timers \cup {Timer("flashReset", r, FlashResetDelay),
                                             Timer("return", r, ReturnDelay)}
    /\ frameLeft' = frameLeft - 1
    /\ UNCHANGED <<flags, tunnelActive, colorMix, bloom, hintHidden, runs, frameDone, visible, resets, hides, lastError, radialActive, loop, modules>>

\* a camera return that stops at its first frame
ReturnDoneAtOnce(p) == TRUE

\* animateCameraReturn: if (progress < 1) requestAnimationFrame(...) else done
ReturnDone(p) == ~(p < 1000)

\* animateCameraReturn of run r, resetPortalToFullVisibility included
AnimateCameraReturn(r) ==
    /\ frameLeft > 0
    /\ Head(raf) = <<"camret", r>>
    /\ LET p == Progress(run[r].retAge, ReturnDuration)
       IN  /\ camZ' = Lerp(run[r].currentPos, run[r].startPos, EaseOutCubic(p))
           /\ camFov' = BaseFov
           /\ IF ~ReturnDone(p)
              THEN /\ raf' = Append(Tail(raf), <<"camret", r>>)
                   /\ UNCHANGED <<run, timers>>
              ELSE /\ raf' = Tail(raf)
                   /\ IF PortalMeshInScene
                      THEN /\ run' = [run EXCEPT ![r].menuCalls = @ + 1]
                           /\ timers' = timers \cup {Timer("reset", r, ResetDelay)}
                      ELSE UNCHANGED <<run, timers>>
    /\ frameLeft' = frameLeft - 1
    /\ UNCHANGED <<flags, flashOpacity, tunnelActive, colorMix, bloom,
                   hintHidden, fx, runs, frameDone, visible, resets, hides, lastError, radialActive, loop, modules>>

\* ------------------------------------------------------------------ timers
\* setTimeout callbacks run in the order of their due times
Due(t) == t \in timers /\ t.rem <= 0 /\ \A u \in timers : u.rem >= t.rem

\* a failsafe that restores the position but leaves the field of view
FailsafeCameraKeepsFov(r) == [z |-> run[r].startPos, fov |-> camFov]

\* failsafe: camera.position.copy(startPos); camera.fov = 75
FailsafeCamera(r) == [z |-> run[r].startPos, fov |-> BaseFov]

\* enterPortal: the failsafe armed by run r, duration + 2000 ms after its start
FailsafeFire(r) ==
    /\ frameLeft = 0
    /\ \E t \in timers :
         /\ Due(t) /\ t.kind = "failsafe" /\ t.run = r
         /\ timers' = timers \ {t}
    /\ IF entering
       THEN /\ camZ' = FailsafeCamera(r).z
            /\ camFov' = FailsafeCamera(r).fov
            /\ entering' = FALSE
            /\ isAnimating' = FALSE
            /\ portalActivated' = FALSE
            /\ run' = Collect(MarkAborted(ActiveRuns), timers', raf)
       ELSE /\ run' = Collect(run, timers', raf)
            /\ UNCHANGED <<camZ, camFov, flags>>
    /\ UNCHANGED <<flashOpacity, tunnelActive, colorMix, bloom, hintHidden,
                   fx, runs, raf, frameLeft, frameDone, visible, resets, hides, lastError, radialActive, loop, modules>>

\* animateFrame, end of flight: the flash overlay goes back to opacity 0
FlashResetFire(r) ==
    /\ frameLeft = 0
    /\ \E t \in timers :
         /\ Due(t) /\ t.kind = "flashReset" /\ t.run = r
         /\ timers' = timers \ {t}
    /\ flashOpacity' = "0"
    /\ UNCHANGED <<flags, camZ, camFov, tunnelActive, colorMix, bloom,
                   hintHidden, fx, runs, run, raf, frameLeft, frameDone, visible, resets, hides, lastError, radialActive, loop, modules>>

\* animateFrame, end of flight: tunnel off, camera return started
ReturnFire(r) ==
    /\ frameLeft = 0
    /\ \E t \in timers :
         /\ Due(t) /\ t.kind = "return" /\ t.run = r
         /\ timers' = timers \ {t}
    /\ tunnelActive' = FALSE
    /\ run' = [run EXCEPT ![r].currentPos = camZ, ![r].retAge = 0]
    /\ raf' = Append(raf, <<"camret", r>>)
    /\ entering' = FALSE
    /\ UNCHANGED <<isAnimating, portalActivated, flashOpacity, camZ, camFov,
                   colorMix, bloom, hintHidden, fx, runs, frameLeft, frameDone, visible, resets, hides, lastError, radialActive, loop, modules>>

\* resetPortalToFullVisibility: the 200 ms buffer before the flags are reset
ResetFire(r) ==
    /\ frameLeft = 0
    /\ \E t \in timers :
         /\ Due(t) /\ t.kind = "reset" /\ t.run = r
         /\ timers' = timers \ {t}
    /\ isAnimating' = FALSE
    /\ portalActivated' = FALSE
    /\ entering' = FALSE
    /\ run' = Collect([run EXCEPT ![r].tailDone = TRUE], timers', raf)
    /\ UNCHANGED <<scene, fx, runs, raf, frameLeft, frameDone, visible, resets, hides, lastError, radialActive, loop, modules>>

\* ------------------------------------------------------------------- clock
\* time passes: no callback is running, no timer is overdue and, while the
\* page is visible, the pending frame callbacks of this instant have run
Tick ==
    /\ frameLeft = 0
    /\ \A t \in timers : t.rem > 0
    /\ ~visible \/ frameDone \/ raf = <<>>
    /\ frameDone' = FALSE
    /\ timers' = { [t EXCEPT !.rem = @ - Step] : t \in timers }
    /\ run' = [r \in RunIds |->
                 IF r > runs THEN run[r]
                 ELSE [run[r] EXCEPT
                         !.age = Min(@ + Step, FlightDuration),
                         !.retAge = IF Pending("camret", r)
                                    THEN Min(@ + Step, ReturnDuration) ELSE @]]
    /\ UNCHANGED <<flags, scene, fx, runs, raf, frameLeft, visible, resets, hides, lastError, radialActive, loop, modules>>

Next ==
    \/ \E hit \in BOOLEAN : PointerDown(hit)
    \/ ActivatePortalCall
    \/ ResetPortalState
    \/ BeginFrame
    \/ Hide
    \/ Show
    \/ \E r \in RunIds : AnimateActivation(r)
    \/ \E r \in RunIds : AnimateFrame(r)
    \/ \E r \in RunIds : AnimateCameraReturn(r)
    \/ \E r \in RunIds : FailsafeFire(r)
    \/ \E r \in RunIds : FlashResetFire(r)
    \/ \E r \in RunIds : ReturnFire(r)
    \/ \E r \in RunIds : ResetFire(r)
    \/ Tick

Spec == Init /\ [][Next]_vars

\* frames and timers keep firing: the page is not hidden, time passes, every
\* pending frame and every due timer is eventually run
NextLive ==
    \/ \E hit \in BOOLEAN : PointerDown(hit)
    \/ ActivatePortalCall
    \/ ResetPortalState
    \/ BeginFrame
    \/ \E r \in RunIds : AnimateActivation(r)
    \/ \E r \in RunIds : AnimateFrame(r)
    \/ \E r \in RunIds : AnimateCameraReturn(r)
    \/ \E r \in RunIds : FailsafeFire(r)
    \/ \E r \in RunIds : FlashResetFire(r)
    \/ \E r \in RunIds : ReturnFire(r)
    \/ \E r \in RunIds : ResetFire(r)
    \/ Tick

Callbacks ==
    \/ BeginFrame
    \/ \E r \in RunIds : AnimateActivation(r)
    \/ \E r \in RunIds : AnimateFrame(r)
    \/ \E r \in RunIds : AnimateCameraReturn(r)
    \/ \E r \in RunIds : FailsafeFire(r)
    \/ \E r \in RunIds : FlashResetFire(r)
    \/ \E r \in RunIds : ReturnFire(r)
    \/ \E r \in RunIds : ResetFire(r)

SpecLive == Init /\ [][NextLive]_vars /\ WF_vars(Callbacks) /\ WF_vars(Tick)

\* ======================================================================
\* Effects that throw
\* ======================================================================
\* the calls activatePortal and enterPortal make besides their own statements
Effects == {"playPortalActivationSound", "startPortalActivationShake",
            "createPortalActivationBurst", "startHyperspaceSound",
            "startHyperspaceEntryShake", "createHyperspaceEntryExplosion",
            "activateTunnel"}

\* the calls that sit in a try block of their own; activateTunnel(true, 3.5,
\* mainScene) is called outside any try block
Guarded == Effects \ {"activateTunnel"}

\* activatePortal when the effects in th throw: a guarded throw is caught and
\* logged and the function goes on; a throw of activateTunnel leaves
\* enterPortal after entering = true and activatePortal after its flags, its
\* effects and the hint, before the failsafe timer, the flight and the colour
\* animation are set up
ActivatePortalThrowing(th) ==
    IF ActivateGuard(isAnimating, portalActivated) /\ ~entering /\ (th \ Guarded) # {}
    THEN /\ runs < MaxRuns
         /\ runs' = runs + 1
         /\ isAnimating' = TRUE
         /\ portalActivated' = TRUE
         /\ hintHidden' = TRUE
         /\ entering' = TRUE
         /\ fx' = fx + 6
         \* activateTunnel assigns tunnelActive before anything that can throw
         /\ tunnelActive' = TRUE
         /\ UNCHANGED <<flashOpacity, camZ, camFov, colorMix, bloom, run, timers,
                        raf, frameLeft, frameDone, visible, resets, hides>>
    ELSE ActivatePortal

\* the pointerdown listener, the effects in th throwing
PointerDownThrowing(hit, th) ==
    /\ frameLeft = 0
    /\ UNCHANGED <<loop, radialActive, modules>>
    /\ IF isAnimating
       THEN /\ lastError' = "Animation laeuft bereits"
            /\ UNCHANGED seqVars
       ELSE IF ListenerAccepts(hit, isAnimating, portalActivated)
            THEN /\ ActivatePortalThrowing(th)
                 /\ UNCHANGED lastError
            ELSE /\ lastError' = (IF ~hit THEN "Portal nicht getroffen"
                                           ELSE "Portal bereits aktiviert")
                 /\ UNCHANGED seqVars

\* the three effects of the flash trigger each sit in a try block of their
\* own, so AnimateFrame is the same step whether or not they throw
NextThrowing ==
    \/ \E hit \in BOOLEAN, th \in SUBSET Effects : PointerDownThrowing(hit, th)
    \/ BeginFrame
    \/ \E r \in RunIds : AnimateActivation(r)
    \/ \E r \in RunIds : AnimateFrame(r)
    \/ \E r \in RunIds : AnimateCameraReturn(r)
    \/ \E r \in RunIds : FailsafeFire(r)
    \/ \E r \in RunIds : FlashResetFire(r)
    \/ \E r \in RunIds : ReturnFire(r)
    \/ \E r \in RunIds : ResetFire(r)
    \/ Tick

SpecThrowing == Init /\ [][NextThrowing]_vars

\* ======================================================================
\* Legacy single-file script: two identical pointerdown listeners
\* ======================================================================
\* the part of the state a legacy pointerdown listener reads and writes
LegacyState ==
    [isAnimating |-> isAnimating, portalActivated |-> portalActivated,
     entering |-> entering, hintHidden |-> hintHidden, runs |-> runs,
     run |-> run, raf |-> raf, colorMix |-> colorMix, bloom |-> bloom]

\* an activatePortal that leaves both flags as they were
LegacyFlagsNotSet == [isAnimating |-> FALSE, portalActivated |-> FALSE]

\* activatePortal: isAnimating = true; portalActivated = true
LegacyActivatedFlags == [isAnimating |-> TRUE, portalActivated |-> TRUE]

\* activatePortal() of the legacy script, enterPortal() and the first
\* synchronous animateActivation() included
LegacyActivatePortal(st) ==
    IF st.isAnimating \/ st.portalActivated
    THEN st
    ELSE LET r == st.runs + 1
             fly == ~st.entering
         IN [st EXCEPT
               !.isAnimating = LegacyActivatedFlags.isAnimating,
               !.portalActivated = LegacyActivatedFlags.portalActivated,
               !.hintHidden = TRUE,
               !.entering = TRUE,
               !.runs = r,
               !.run = [rr \in RunIds |->
                          IF rr = r
                          THEN [NoRun EXCEPT !.startPos = camZ,
                                             !.startColor = st.colorMix]
                          ELSE st.run[rr]],
               !.raf = (IF fly THEN Append(st.raf, <<"lflight", r>>) ELSE st.raf)
                       \o <<<<"lcolour", r>>>>,
               !.colorMix = Lerp(st.colorMix, TargetMix,
                                 EaseOutCubic(Progress(0, ActivationDuration))),
               !.bloom = BaseBloom + EaseOutCubic(Progress(0, ActivationDuration))]

\* one pointerdown listener of the legacy script
LegacyListener(st, hit) ==
    IF st.isAnimating
    THEN st
    ELSE IF hit /\ ~st.portalActivated
         THEN LegacyActivatePortal(st)
         ELSE st

\* a pointerdown event: both registered listeners run, in registration order
LegacyPointerDown(hit) ==
    /\ frameLeft = 0
    /\ LET st == LegacyListener(LegacyListener(LegacyState, hit), hit)
       IN  /\ st.runs <= MaxRuns
           /\ isAnimating' = st.isAnimating
           /\ portalActivated' = st.portalActivated
           /\ entering' = st.entering
           /\ hintHidden' = st.hintHidden
           /\ runs' = st.runs
           /\ run' = st.run
           /\ raf' = st.raf
           /\ colorMix' = st.colorMix
           /\ bloom' = st.bloom
    /\ UNCHANGED <<flashOpacity, camZ, camFov, tunnelActive, fx, timers,
                   frameLeft, frameDone, visible, resets, hides, lastError,
                   radialActive, loop, modules>>

\* animateActivation of the legacy script
LegacyAnimateActivation(r) ==
    /\ frameLeft > 0
    /\ Head(raf) = <<"lcolour", r>>
    /\ LET p == Progress(run[r].age, ActivationDuration)
           eased == EaseOutCubic(p)
       IN  /\ colorMix' = Lerp(run[r].startColor, TargetMix, eased)
           /\ bloom' = BaseBloom + eased
           /\ IF p < 1000
              THEN /\ raf' = Append(Tail(raf), <<"lcolour", r>>)
                   /\ UNCHANGED timers
              ELSE /\ raf' = Tail(raf)
                   /\ timers' = timers \cup {Timer("menu", r, LegacyMenuDelay)}
    /\ frameLeft' = frameLeft - 1
    /\ UNCHANGED <<flags, flashOpacity, camZ, camFov, tunnelActive, hintHidden,
                   fx, runs, run, frameDone, visible, resets, hides, lastError,
                   radialActive, loop, modules>>

\* the 400 ms timer at the end of animateActivation
LegacyMenuFire(r) ==
    /\ frameLeft = 0
    /\ \E t \in timers :
         /\ Due(t) /\ t.kind = "menu" /\ t.run = r
         /\ timers' = timers \ {t}
    /\ radialActive' = TRUE
    /\ isAnimating' = FALSE
    /\ UNCHANGED <<portalActivated, entering, scene, fx, runs, run, raf,
                   frameLeft, frameDone, visible, resets, hides, lastError, loop, modules>>

\* frame(time) of the legacy enterPortal
LegacyFrame(r) ==
    /\ frameLeft > 0
    /\ Head(raf) = <<"lflight", r>>
    /\ LET t == Progress(run[r].age, LegacyFlightDuration)
       IN  /\ camZ' = Lerp(run[r].startPos, LegacyTargetZ, t)
           /\ flashOpacity' = (IF t >= LegacyFlashThreshold /\ flashOpacity = "0"
                               THEN "1" ELSE flashOpacity)
           /\ IF t < 1000
              THEN /\ raf' = Append(Tail(raf), <<"lflight", r>>)
                   /\ UNCHANGED timers
              ELSE /\ raf' = Tail(raf)
                   /\ timers' = timers \cup {Timer("flightEnd", r, LegacyFlightEndDelay)}
    /\ frameLeft' = frameLeft - 1
    /\ UNCHANGED <<flags, camFov, tunnelActive, colorMix, bloom, hintHidden,
                   fx, runs, run, frameDone, visible, resets, hides, lastError,
                   radialActive, loop, modules>>

\* the 50 ms timer at the end of the legacy flight
LegacyFlightEnd(r) ==
    /\ frameLeft = 0
    /\ \E t \in timers :
         /\ Due(t) /\ t.kind = "flightEnd" /\ t.run = r
         /\ timers' = timers \ {t}
    /\ flashOpacity' = "0"
    /\ camZ' = run[r].startPos
    /\ entering' = FALSE
    /\ UNCHANGED <<isAnimating, portalActivated, camFov, tunnelActive, colorMix,
                   bloom, hintHidden, fx, runs, run, raf, frameLeft, frameDone,
                   visible, resets, hides, lastError, radialActive, loop, modules>>

\* click on the hub of the radial menu: hideRadialMenu()
LegacyHideRadialMenu ==
    /\ frameLeft = 0
    /\ radialActive
    /\ radialActive' = FALSE
    /\ UNCHANGED <<flags, scene, fx, runs, run, timers, raf, frameLeft,
                   frameDone, visible, resets, hides, lastError, loop, modules>>

NextLegacy ==
    \/ \E hit \in BOOLEAN : LegacyPointerDown(hit)
    \/ \E r \in RunIds : LegacyAnimateActivation(r)
    \/ \E r \in RunIds : LegacyMenuFire(r)
    \/ \E r \in RunIds : LegacyFrame(r)
    \/ \E r \in RunIds : LegacyFlightEnd(r)
    \/ LegacyHideRadialMenu
    \/ BeginFrame
    \/ Hide
    \/ Show
    \/ Tick

SpecLegacy == Init /\ [][NextLegacy]_vars

\* ======================================================================
\* Render loop of main.js
\* ======================================================================
\* initialize() has run: the optional effect modules are loaded or were
\* skipped, and animate() is about to be called
InitRender ==
    /\ isAnimating = FALSE
    /\ portalActivated = FALSE
    /\ entering = FALSE
    /\ flashOpacity = ""
    /\ camZ = InitialCamZ
    /\ camFov = InitialFov
    /\ tunnelActive = FALSE
    /\ colorMix = 0
    /\ bloom = BaseBloom
    /\ hintHidden = FALSE
    /\ fx = 0
    /\ runs = 0
    /\ run = [r \in RunIds |-> NoRun]
    /\ timers = {}
    /\ raf = <<>>
    /\ frameLeft = 0
    /\ frameDone = FALSE
    /\ visible = TRUE
    /\ resets = 0
    /\ hides = 0
    /\ lastError = "null"
    /\ radialActive = FALSE
    /\ \E sl \in BOOLEAN, pl \in BOOLEAN :
         loop = [InitLoop EXCEPT !.shakeLoaded = sl, !.particleLoaded = pl,
                                 !.requested = TRUE]
    /\ clock = InitClock
    /\ boot = InitBoot
    /\ loading = InitLoading
    /\ shake = InitShake
    /\ aberration = InitAberration

\* the try block of animate(): updateShake, updateParticleExplosions,
\* updateHoverEffects; the first call that throws ends the block
EffectsBlock(l, shakeThrows, particleThrows) ==
    LET s1 == IF l.shakeLoaded
              THEN [l EXCEPT !.shakeCalls = @ + 1,
                             !.shakeThrew = @ + (IF shakeThrows THEN 1 ELSE 0)]
              ELSE l
        threw1 == l.shakeLoaded /\ shakeThrows
        s2 == IF ~threw1 /\ l.particleLoaded
              THEN [s1 EXCEPT !.particleCalls = @ + 1,
                              !.particleThrew = @ + (IF particleThrows THEN 1 ELSE 0)]
              ELSE s1
        threw2 == threw1 \/ (l.particleLoaded /\ particleThrows)
    IN  IF threw2 THEN s2 ELSE [s2 EXCEPT !.hoverCalls = @ + 1]

\* animate(): one frame of the render loop
Animate(shakeThrows, particleThrows) ==
    /\ loop.requested
    /\ loop.frame < MaxFrames
    /\ loop' = [EffectsBlock(loop, shakeThrows, particleThrows) EXCEPT
                  !.frame = @ + 1,
                  !.renders = @ + 1,
                  !.autoHideChecks = @ + 1,
                  !.requested = TRUE]
    /\ UNCHANGED seqVars
    /\ UNCHANGED <<lastError, radialActive, modules>>

NextRender == \E st \in BOOLEAN, pt \in BOOLEAN : Animate(st, pt)

SpecRender == InitRender /\ [][NextRender]_vars

\* ======================================================================
\* The clock of one flight: frame timestamps and performance.now()
\* ======================================================================
\* animateFrame: Math.min(1, (time - startTime) / duration), no lower clamp
FlightProgress(time, startTime) == Min(1000, ((time - startTime) * 1000) \div FlightDuration)

\* the browser begins a frame; its callbacks will be passed this timestamp
ClockFrameBegin ==
    /\ ~clock.inFrame
    /\ ~clock.frameDone
    /\ ~clock.finished
    /\ clock' = [clock EXCEPT !.inFrame = TRUE, !.frameDone = TRUE,
                              !.frameTime = clock.now]
    /\ UNCHANGED <<seqVars, lastError, radialActive, loop, boot, loading, shake, aberration>>

\* time passes: a whole frame interval between two frames, up to MaxLag
\* between the beginning of a frame and the handlers and callbacks run in it
ClockAdvance(d) ==
    /\ clock.now + d <= MaxClock
    /\ IF clock.inFrame THEN d <= MaxLag /\ clock.now = clock.frameTime ELSE d = Step
    /\ clock' = [clock EXCEPT !.now = @ + d, !.frameDone = clock.inFrame]
    /\ UNCHANGED <<seqVars, lastError, radialActive, loop, boot, loading, shake, aberration>>

\* enterPortal: const startTime = performance.now(); requestAnimationFrame(animateFrame)
ClockEnterPortal ==
    /\ clock.startTime = -1
    /\ clock' = [clock EXCEPT !.startTime = clock.now, !.pending = TRUE]
    /\ UNCHANGED <<seqVars, lastError, radialActive, loop, boot, loading, shake, aberration>>

\* the callbacks of the frame run: animateFrame(time) with the frame's timestamp
ClockAnimateFrame ==
    /\ clock.inFrame
    /\ LET p == FlightProgress(clock.frameTime, clock.startTime)
       IN  clock' = IF clock.pending
                    THEN [clock EXCEPT !.inFrame = FALSE,
                                       !.frames = @ + 1,
                                       !.elapsed = clock.frameTime - clock.startTime,
                                       !.prev = IF clock.frames = 0 THEN p ELSE clock.progress,
                                       !.progress = p,
                                       !.pending = p < 1000,
                                       !.finished = ~(p < 1000)]
                    ELSE [clock EXCEPT !.inFrame = FALSE]
    /\ UNCHANGED <<seqVars, lastError, radialActive, loop, boot, loading, shake, aberration>>

NextClock ==
    \/ ClockFrameBegin
    \/ \E d \in (1..MaxLag) \cup {Step} : ClockAdvance(d)
    \/ ClockEnterPortal
    \/ ClockAnimateFrame

SpecClock == Init /\ [][NextClock]_vars

\* ======================================================================
\* initialize() of main.js
\* ======================================================================
\* the statements of the try block of initialize(), in order
BootSteps == <<"initializeScene", "setupLighting", "setupPostProcessing",
               "createPortal", "createDecorations", "createTunnel",
               "audio", "shake", "particles",
               "initializePortalInteraction", "setupResizeHandler",
               "configureFinalSettings", "enableAutoHide", "animate">>

\* the dynamically imported effect modules, each in a try block of its own
OptionalModules == {"audio", "shake", "particles"}

\* main.js imports setLoadingProgress, hideLoading, checkAutoHide and
\* enableAutoHide from loading.js; setLoadingError is not among them and is
\* not defined in main.js, so calling it is a ReferenceError
ImportedFromLoading == {"setLoadingProgress", "hideLoading", "checkAutoHide", "enableAutoHide"}

\* one statement of the try block; outcome "ok", "importFails" or "initFails"
\* for an effect module, "ok" or "throws" otherwise
BootStep(outcome) ==
    /\ boot.settled = "pending"
    /\ ~boot.caught
    /\ boot.pc <= Len(BootSteps)
    /\ LET step == BootSteps[boot.pc]
       IN  IF step \in OptionalModules
           THEN /\ outcome \in {"ok", "importFails", "initFails"}
                \* window.<module> is assigned after the module was initialised
                /\ boot' = [boot EXCEPT !.pc = @ + 1,
                                        !.loaded = IF outcome = "ok" THEN @ \cup {step} ELSE @]
           ELSE /\ outcome \in {"ok", "throws"}
                /\ boot' = IF outcome = "throws"
                           THEN [boot EXCEPT !.failed = step, !.caught = TRUE]
                           ELSE [boot EXCEPT
                                   !.pc = @ + 1,
                                   !.interaction = @ \/ step = "initializePortalInteraction",
                                   !.autoHide = @ \/ step = "enableAutoHide",
                                   \* animate() ends with requestAnimationFrame(animate)
                                   !.loopStarted = @ \/ step = "animate"]
    /\ UNCHANGED <<seqVars, lastError, radialActive, loop, clock, loading, shake, aberration>>

\* initialize() returns after its last statement
BootDone ==
    /\ boot.settled = "pending"
    /\ ~boot.caught
    /\ boot.pc > Len(BootSteps)
    /\ boot' = [boot EXCEPT !.settled = "fulfilled"]
    /\ UNCHANGED <<seqVars, lastError, radialActive, loop, clock, loading, shake, aberration>>

\* the catch block: console.error(...); setLoadingError('Initialisierung
\* fehlgeschlagen')
BootCatch ==
    /\ boot.settled = "pending"
    /\ boot.caught
    /\ boot' = IF "setLoadingError" \in ImportedFromLoading
               THEN [boot EXCEPT !.errorShown = TRUE, !.settled = "fulfilled"]
               ELSE [boot EXCEPT !.settled = "rejected"]
    /\ UNCHANGED <<seqVars, lastError, radialActive, loop, clock, loading, shake, aberration>>

NextBoot ==
    \/ \E o \in {"ok", "throws", "importFails", "initFails"} : BootStep(o)
    \/ BootDone
    \/ BootCatch

SpecBoot == Init /\ [][NextBoot]_vars

\* ======================================================================
\* loading.js
\* ======================================================================
\* the delays enableAutoHide is called with
Delays == {40, DefaultDelay, 200}

\* checkAutoHide leaves autoHideEnabled true after hiding
AutoHideStaysEnabled == TRUE

\* checkAutoHide: autoHideEnabled = false after hiding
AutoHideEnabledAfterHide == FALSE

\* the part of the state loading.js itself reads and writes
LoadingView(l) == <<l.display, l.opacity, l.barWidth, l.autoHideEnabled,
                    l.startTime, l.hideTimers>>

LoadingOnly ==
    UNCHANGED <<seqVars, lastError, radialActive, loop, clock, boot, shake, aberration>>

\* enableAutoHide(delay = 80): the delay is logged, not stored
EnableAutoHide(d) ==
    /\ loading.calls < MaxLoadingCalls
    /\ loading' = [loading EXCEPT !.startTime = loading.now,
                                  !.autoHideEnabled = TRUE,
                                  !.delay = d,
                                  !.calls = @ + 1,
                                  !.enabled = TRUE,
                                  !.autoHides = 0, !.fullCalls = 0,
                                  !.lateCheck = FALSE, !.earlyHide = FALSE]
    /\ LoadingOnly

\* hideLoading(): opacity 0 now, display none 350 ms later
HideLoadingOf(l) ==
    [l EXCEPT !.opacity = 0,
              !.hideTimers = @ \cup {l.now + HideTimerDelay},
              !.shown = FALSE]

HideLoading ==
    /\ loading.calls < MaxLoadingCalls
    /\ loading' = [HideLoadingOf(loading) EXCEPT !.calls = @ + 1]
    /\ LoadingOnly

\* showLoading(text)
ShowLoading ==
    /\ loading.calls < MaxLoadingCalls
    /\ loading' = [loading EXCEPT !.display = "flex", !.opacity = 1,
                                  !.barWidth = 0,
                                  !.shown = TRUE,
                                  !.calls = @ + 1]
    /\ LoadingOnly

\* checkAutoHide(), called from the render loop
CheckAutoHide ==
    /\ LET late == loading.enabled /\ loading.now - loading.startTime > loading.delay
           l1 == [loading EXCEPT !.lateCheck = @ \/ late]
       IN  loading' =
             IF ~loading.autoHideEnabled \/ loading.startTime = 0
             THEN l1
             ELSE IF loading.now - loading.startTime > AutoHideWait
                  THEN [HideLoadingOf(l1) EXCEPT
                          !.barWidth = 100,
                          !.autoHideEnabled = AutoHideEnabledAfterHide,
                          !.autoHides = @ + 1,
                          !.fullCalls = @ + 1,
                          !.earlyHide = @ \/ ~late]
                  ELSE l1
    /\ LoadingOnly

\* the 350 ms timer of a hideLoading call fires
HideTimerFire ==
    /\ \E t \in loading.hideTimers :
         /\ t <= loading.now
         /\ loading' = [loading EXCEPT !.display = "none", !.hideTimers = @ \ {t}]
    /\ LoadingOnly

\* time passes; due timers fire first
LoadingTick ==
    /\ \A t \in loading.hideTimers : t > loading.now
    /\ loading.now + LoadingStep <= MaxLoadingTime
    /\ loading' = [loading EXCEPT !.now = @ + LoadingStep]
    /\ LoadingOnly

NextLoading ==
    \/ \E d \in Delays : EnableAutoHide(d)
    \/ HideLoading
    \/ ShowLoading
    \/ CheckAutoHide
    \/ HideTimerFire
    \/ LoadingTick

SpecLoading == Init /\ [][NextLoading]_vars

\* ======================================================================
\* shake.js (camera position and rotation in 1/1000, intensity in permille)
\* ======================================================================
ShakeOnly ==
    UNCHANGED <<seqVars, lastError, radialActive, loop, clock, boot, loading, aberration>>

\* config.x || default: 0 (like undefined) is replaced by the default
OrDefault(v, dflt) == IF v = 0 THEN dflt ELSE v

Isqrt(n) == CHOOSE k \in 0..1000 : k * k <= n /\ (k + 1) * (k + 1) > n

\* Math.pow(x, 1.5) on permille
Pow15(x) == (x * Isqrt(x * 1000)) \div 1000

\* calculateIntensity(progress, pattern), permille ('continuous' is used by
\* no caller and left out)
CalculateIntensity(p, pattern) ==
    CASE pattern = "impact" -> ((1000 - p) * (1000 - p)) \div 1000
      [] pattern = "acceleration" ->
           IF p < 300 THEN (p * 500) \div 300
           ELSE IF p < 700 THEN 500 + (((p - 300) * 500) \div 400)
           ELSE Pow15(1000 - (((p - 700) * 1000) \div 300))
      [] pattern = "flash" ->
           LET q == ((1000 - p) * (1000 - p)) \div 1000 IN (q * q) \div 1000
      [] OTHER -> 1000 - p

\* a stopShake that leaves the camera where the shake put it
PositionLeftDisplaced(sh) == sh.camPos

\* stopShake: camera.position.copy(shakeData.originalPosition)
RestoredPosition(sh) == sh.origPos

\* stopShake()
StopShakeOf(sh, how) ==
    IF ~sh.isShaking
    THEN sh
    ELSE [sh EXCEPT !.isShaking = FALSE,
                    !.camPos = RestoredPosition(sh),
                    !.camRot = sh.origRot,
                    !.transform = "",
                    !.ended = how]

\* startShake(config)
StartShakeOf(sh, config) ==
    LET st == StopShakeOf(sh, "startShake")
    IN  [st EXCEPT !.intensity = OrDefault(config.intensity, DefaultIntensity),
                   !.duration = OrDefault(config.duration, DefaultShakeDuration),
                   !.elapsed = 0,
                   !.type = config.type,
                   !.pattern = config.pattern,
                   !.origPos = st.camPos,
                   !.origRot = st.camRot,
                   !.isShaking = TRUE,
                   !.starts = @ + 1,
                   !.capturedPos = st.camPos,
                   !.capturedRot = st.camRot,
                   !.accum = 0,
                   !.displaced = FALSE,
                   !.ended = "none",
                   !.updatedAfterEnd = FALSE]

\* startPortalActivationShake, startHyperspaceEntryShake, startFlashImpactShake
NamedShakes ==
    { [intensity |-> ActivationShakeIntensity, duration |-> ActivationShakeDuration,
       type |-> "both", pattern |-> "impact"],
      [intensity |-> EntryShakeIntensity, duration |-> EntryShakeDuration,
       type |-> "both", pattern |-> "acceleration"],
      [intensity |-> FlashShakeIntensity, duration |-> FlashShakeDuration,
       type |-> "screen", pattern |-> "flash"] }

StartNamedShake(config) ==
    /\ shake.starts < MaxShakes
    /\ shake' = StartShakeOf(shake, config)
    /\ ShakeOnly

\* the arguments customShake is called with
CustomIntensities == {0, 1000, 2000}
CustomDurations == {0, 48}
CustomTypes == {"camera", "screen", "both"}
CustomPatterns == {"impact", "linear"}

\* customShake(intensity, duration, type, pattern)
CustomShake(i, d, t, p) ==
    /\ shake.starts < MaxShakes
    /\ shake' = StartShakeOf(shake, [intensity |-> i, duration |-> d,
                                     type |-> t, pattern |-> p])
    /\ ShakeOnly

\* stopShake() called from outside
StopShake ==
    /\ shake' = StopShakeOf(shake, "stopShake")
    /\ ShakeOnly

\* an updateShake that ends the shake one call late
ShakeOverLate(elapsed, duration) == elapsed > duration

\* updateShake: if (shakeData.elapsed >= shakeData.duration) stopShake()
ShakeOver(elapsed, duration) == elapsed >= duration

\* updateShake(deltaTime); dt is deltaTime * 1000, sp and sr the signs of the
\* random offsets
UpdateShake(dt, sp, sr) ==
    /\ shake' =
         IF ~shake.isShaking
         THEN [shake EXCEPT !.updatedAfterEnd = (shake.ended # "none")]
         ELSE LET e == shake.elapsed + dt
                  sh == [shake EXCEPT !.elapsed = e, !.accum = @ + dt]
              IN  IF ShakeOver(e, sh.duration)
                  THEN StopShakeOf(sh, "updateShake")
                  ELSE LET progress == (e * 1000) \div sh.duration
                           current == (CalculateIntensity(progress, sh.pattern) * sh.intensity) \div 1000
                           cam == sh.type \in {"camera", "both"}
                           scr == sh.type \in {"screen", "both"}
                       IN  [sh EXCEPT
                              \* applyCameraShake: original + (random - 0.5) * range
                              !.camPos = IF cam THEN sh.origPos + sp * (current \div 4) ELSE @,
                              !.camRot = IF cam THEN sh.origRot + sr * (current \div 100) ELSE @,
                              \* applyScreenShake
                              !.transform = IF scr THEN "translate" ELSE @,
                              !.displaced = TRUE]
    /\ ShakeOnly

\* the places other code puts the camera (updateCameraMovement, animateFrame)
CameraSpots == {InitialCamZ * 10, 0}

\* another module writes the camera position
CameraMoved(p) ==
    /\ shake.camPos # p
    /\ shake' = [shake EXCEPT !.camPos = p]
    /\ ShakeOnly

NextShake ==
    \/ \E c \in NamedShakes : StartNamedShake(c)
    \/ \E i \in CustomIntensities, d \in CustomDurations,
          t \in CustomTypes, p \in CustomPatterns : CustomShake(i, d, t, p)
    \/ StopShake
    \/ \E sp \in {-1, 1}, sr \in {-1, 1} : UpdateShake(FrameDelta, sp, sr)
    \/ \E p \in CameraSpots : CameraMoved(p)

SpecShake == Init /\ [][NextShake]_vars

\* ======================================================================
\* aberration.js (amounts in 1/1000000, progress in permille, times in ms)
\* ======================================================================
AberrationOnly ==
    UNCHANGED <<seqVars, lastError, radialActive, loop, clock, boot, loading, shake>>

\* Math.sin(q * Math.PI) * 1000 for q in permille, 0 <= q <= 500, by the
\* rational approximation 16q(1-q) / (5 - 4q(1-q)); exact at q = 0 and 1/2
SinPermille(q) == (16 * q * (1000 - q)) \div ((5000000 - 4 * q * (1000 - q)) \div 1000)

\* the switch on config.easing in animate()
Eased(easing, p) ==
    CASE easing = "impact" -> 1000 - ((1000 - p) * (1000 - p) * (1000 - p)) \div 1000000
      [] easing = "continuous" ->
            IF p >= 500 THEN 500 + SinPermille(p - 500) \div 2
                        ELSE 500 - SinPermille(500 - p) \div 2
      [] easing = "flash" ->
            IF p < 500 THEN (2 * p * p) \div 1000
            ELSE 1000 - (((2000 - 2 * p) * (2000 - 2 * p) * (2000 - 2 * p)) \div 1000000) \div 2
      [] OTHER -> p

\* startAmount + (config.targetAmount - startAmount) * easedProgress
AmountAt(c) ==
    c.startAmount
      + ((c.targetAmount - c.startAmount)
            * Eased(c.easing, Progress(c.elapsed, c.duration))) \div 1000

\* the configurations of startPortalActivationAberration,
\* startHyperspaceAberration and startFlashAberration
AberrationEffects ==
    { [targetAmount |-> 20000, duration |-> 800, easing |-> "impact"],
      [targetAmount |-> 15000, duration |-> 2500, easing |-> "continuous"],
      [targetAmount |-> 35000, duration |-> 150, easing |-> "flash"] }

\* one call of a closure's animate() on the state a: a closure that finds
\* isAnimating false returns and is gone; otherwise it writes the amount and
\* either asks for the next frame or sets the 100 ms timer
AnimateOnce(a, c) ==
    IF ~a.isAnimating THEN a
    ELSE LET amount == AmountAt(c)
             b == [a EXCEPT !.currentAmount = amount, !.passAmount = amount]
         IN  IF Progress(c.elapsed, c.duration) < 1000
             THEN [b EXCEPT !.anims = Append(@, c)]
             ELSE [b EXCEPT !.timers = Append(@, [kind |-> "return",
                                                  left |-> ReturnToBaseDelay])]

\* animateAberration(config): captures currentAmount and Date.now(), sets
\* isAnimating and targetAmount, and calls animate() once
AnimateAberrationOf(a, config) ==
    AnimateOnce([a EXCEPT !.isAnimating = TRUE, !.targetAmount = config.targetAmount],
                [startAmount |-> a.currentAmount, targetAmount |-> config.targetAmount,
                 duration |-> config.duration, easing |-> config.easing,
                 elapsed |-> 0])

\* the callbacks cs of one frame, run in the order they were requested
RECURSIVE RunAnimations(_, _)
RunAnimations(a, cs) ==
    IF cs = <<>> THEN a ELSE RunAnimations(AnimateOnce(a, Head(cs)), Tail(cs))

\* one of the three exported start functions is called
StartAberration(config) ==
    /\ aberration.calls < MaxAberrationCalls
    /\ aberration' = [AnimateAberrationOf(aberration, config)
                        EXCEPT !.calls = aberration.calls + 1]
    /\ AberrationOnly

\* stopAberration()
StopAberration ==
    /\ aberration.calls < MaxAberrationCalls
    /\ aberration' = [aberration EXCEPT !.isAnimating = FALSE,
                                        !.passAmount = aberration.baseAmount,
                                        !.calls = aberration.calls + 1]
    /\ AberrationOnly

\* the browser runs a frame: every animate closure that asked for it runs
AberrationFrame ==
    /\ aberration.anims # <<>>
    /\ ~aberration.frameDone
    /\ aberration' = RunAnimations([aberration EXCEPT !.anims = <<>>, !.frameDone = TRUE],
                                   aberration.anims)
    /\ AberrationOnly

\* returnToBaseAberration(): animates to baseAmount over 1000 ms and sets the
\* timer that clears isAnimating after 1000 ms
ReturnToBaseAberrationOf(a) ==
    LET b == AnimateAberrationOf(a, [targetAmount |-> a.baseAmount,
                                     duration |-> ReturnToBaseDuration,
                                     easing |-> "continuous"])
    IN  [b EXCEPT !.timers = Append(@, [kind |-> "clear", left |-> ClearAnimatingDelay])]

\* sequence s without its i-th element
WithoutTimer(s, i) == SubSeq(s, 1, i - 1) \o SubSeq(s, i + 1, Len(s))

\* the first timer that is due, in the order the timers were set
DueTimer ==
    LET due == {i \in 1..Len(aberration.timers) : aberration.timers[i].left = 0}
    IN  IF due = {} THEN 0 ELSE CHOOSE i \in due : \A j \in due : i <= j

\* a timer that is due runs its callback
AberrationTimerFire ==
    /\ DueTimer > 0
    /\ LET i == DueTimer
           a == [aberration EXCEPT !.timers = WithoutTimer(@, i)]
       IN  aberration' =
             IF aberration.timers[i].kind = "return"
             THEN ReturnToBaseAberrationOf(a)
             ELSE [a EXCEPT !.isAnimating = FALSE]
    /\ AberrationOnly

\* Date.now() advances, to the next due time at most; a timer that is due
\* fires and a requested frame is run before the clock moves on
AberrationTick ==
    /\ DueTimer = 0
    /\ aberration.anims # <<>> \/ aberration.timers # <<>>
    /\ aberration.anims # <<>> => aberration.frameDone
    /\ LET lefts == {aberration.timers[i].left : i \in 1..Len(aberration.timers)}
           d == CHOOSE m \in lefts \cup {AberrationStep} :
                    \A n \in lefts \cup {AberrationStep} : m <= n
       IN  aberration' =
             [aberration EXCEPT
                !.anims = [i \in 1..Len(@) |->
                             [@[i] EXCEPT !.elapsed = Min(@ + d, aberration.anims[i].duration)]],
                !.timers = [i \in 1..Len(@) |-> [@[i] EXCEPT !.left = @ - d]],
                !.frameDone = FALSE]
    /\ AberrationOnly

NextAberration ==
    \/ \E config \in AberrationEffects : StartAberration(config)
    \/ StopAberration
    \/ AberrationFrame
    \/ AberrationTimerFire
    \/ AberrationTick

\* frames are delivered, due timers fire and time passes
SpecAberration ==
    /\ Init /\ [][NextAberration]_vars
    /\ WF_vars(AberrationFrame)
    /\ WF_vars(AberrationTimerFire)
    /\ WF_vars(AberrationTick)

\* ======================================================================
\* Properties of the interaction module
\* ======================================================================
\* a callback of run r ran in this step
RanCallbackOf(r) ==
    /\ frameLeft > 0
    /\ frameLeft' = frameLeft - 1
    /\ Head(raf)[2] = r

\* the failsafe timer of run r fired in this step
FailsafeFired(r) ==
    /\ HasTimer("failsafe", r)
    /\ \A t \in timers' : ~(t.kind = "failsafe" /\ t.run = r)

\* C1: for any interleaving of pointerdown events, frames and timer callbacks
\* (window.resetPortalState not called), at most one activation sequence is
\* running or completing at any instant, and an activatePortal call made
\* while one is active changes no flag and starts no animation, effect or
\* timer.
C1_AtMostOneSequence ==
    [][ resets' = 0 =>
          /\ Cardinality(ActiveRuns) <= 1
          /\ (ActiveRuns # {} /\ ActivatePortalCall)
                => UNCHANGED <<flags, scene, fx, runs, timers, raf>> ]_vars

\* C2: with frames and timers firing, every accepted activation eventually
\* reaches the end of its 200 ms tail with isAnimating, portalActivated and
\* entering all false.
C2_EventuallyIdle ==
    \A r \in RunIds : (runs >= r) ~> (run[r].tailDone /\ Idle)

C2_Witness ==
    /\ run[1].tailDone /\ ~run[1].aborted /\ run[1].menuCalls = 1
    /\ Idle /\ ~Active(1) /\ runs = 1 /\ camZ = InitialCamZ

\* C3: showPortalMenu is called exactly once for every run that completed
\* without being aborted, and never for a run after it was aborted.
C3_MenuOncePerCompletedRun ==
    [][ \A r \in RunIds :
          /\ run[r].aborted => run'[r].menuCalls = run[r].menuCalls
          /\ (run'[r].tailDone /\ ~run'[r].aborted) => run'[r].menuCalls = 1 ]_vars

\* C4: in every flight the flash trigger fires exactly once, on the first
\* frame whose progress is >= 0.85: after any such frame of run r the trigger
\* has fired exactly once for r.
C4_FlashOncePerRun ==
    [][ \A r \in RunIds :
          ( /\ frameLeft > 0
            /\ Head(raf) = <<"flight", r>>
            /\ Progress(run[r].age, FlightDuration) >= FlashThreshold )
          => run'[r].flashFired = 1 ]_vars

\* C5: a pointerdown that misses the portal, or that arrives while
\* isAnimating or portalActivated is true, leaves the three flags unchanged
\* and starts no animation, effect or timer.
C5_IgnoredPointerDown ==
    [][ \A hit \in BOOLEAN :
          (PointerDown(hit) /\ (~hit \/ isAnimating \/ portalActivated))
          => UNCHANGED <<flags, scene, fx, runs, run, timers, raf>> ]_vars

C5_Witness ==
    /\ lastError = "Portal bereits aktiviert"
    /\ portalActivated /\ ~isAnimating /\ Active(1) /\ runs = 1

\* C7: once a sequence has been aborted, none of its frame callbacks
\* (flight, camera return, colour) is applied any more.
C7_NoFrameAfterAbort ==
    [][ \A r \in RunIds : run[r].aborted => ~RanCallbackOf(r) ]_vars

\* C8: when the failsafe of run r fires while entering is still set, the
\* three flags become false and the camera is back at r's start position
\* with FOV 75.
C8_FailsafeForcesIdle ==
    [][ \A r \in RunIds :
          (FailsafeFired(r) /\ entering)
          => /\ ~entering' /\ ~isAnimating' /\ ~portalActivated'
             /\ camZ' = run[r].startPos
             /\ camFov' = BaseFov ]_vars

C8_Witness ==
    /\ runs = 1 /\ resets = 0
    /\ run[1].aborted /\ ~HasTimer("failsafe", 1) /\ Pending("flight", 1)
    /\ Idle /\ camZ = run[1].startPos /\ camFov = BaseFov

\* C9: the failsafe timer of a run that has already completed changes no
\* flag and no camera state when it fires, whatever else is in progress.
C9_FailsafeOnlyOwnRun ==
    [][ \A r \in RunIds :
          (FailsafeFired(r) /\ run[r].tailDone)
          => UNCHANGED <<flags, camZ, camFov>> ]_vars

\* ======================================================================
\* Properties of the legacy script and of the render loop
\* ======================================================================
\* C6: with the activation logic attached in two pointerdown listeners, and
\* for events in rapid succession, a pointerdown starts exactly one
\* activation when it hits the idle portal and none otherwise.
C6_OneStartPerClick ==
    [][ \A hit \in BOOLEAN :
          LegacyPointerDown(hit)
          => runs' = runs + (IF hit /\ ~isAnimating /\ ~portalActivated
                             THEN 1 ELSE 0) ]_vars

C6_Witness ==
    /\ runs = 1 /\ isAnimating /\ portalActivated /\ entering
    /\ raf = << <<"lflight", 1>>, <<"lcolour", 1>> >>

\* C10: if updateShake throws on every frame, updateParticleExplosions and
\* updateHoverEffects are still invoked on every frame, and rendering,
\* checkAutoHide and the request for the next frame still happen.
C10_ShakeFaultIsolated ==
    (loop.shakeLoaded /\ loop.shakeThrew = loop.frame /\ loop.particleThrew = 0)
    => /\ loop.particleLoaded => loop.particleCalls = loop.frame
       /\ loop.hoverCalls = loop.frame
       /\ loop.renders = loop.frame
       /\ loop.autoHideChecks = loop.frame
       /\ loop.requested

\* C11: when an effect called while starting the sequence throws, all six
\* effect calls are still made, the flight and colour animations and the
\* failsafe are still set up, and no flag stays set with nothing pending that
\* could clear it.
C11_EffectThrowTolerated ==
    [][ /\ runs' = runs + 1 =>
             /\ fx' = fx + 6
             /\ \E i \in 1..Len(raf') : raf'[i] = <<"flight", runs'>>
             /\ \E i \in 1..Len(raf') : raf'[i] = <<"colour", runs'>>
             /\ \E t \in timers' : t.kind = "failsafe" /\ t.run = runs'
        /\ (isAnimating \/ portalActivated \/ entering) =>
             (raf # <<>> \/ timers # {}) ]_vars

\* C12: on every frame of the flight the progress lies in [0,1], it does not
\* decrease from one frame to the next, and the last frame of the run has
\* progress exactly 1, at or after 2500 ms elapsed.
C12_ProgressBounded ==
    clock.frames > 0 =>
        /\ 0 <= clock.progress /\ clock.progress <= 1000
        /\ clock.prev <= clock.progress
        /\ clock.finished => (clock.progress = 1000 /\ clock.elapsed >= FlightDuration)

C14_InitErrorShown ==
    /\ (boot.settled # "pending" /\ boot.failed # "none") =>
           (boot.errorShown /\ ~boot.loopStarted)
    /\ (boot.settled # "pending" /\ boot.failed = "none") =>
           (boot.interaction /\ boot.loopStarted /\ ~boot.errorShown)

\* C15: after enableAutoHide() with the default wait, checkAutoHide hides the
\* overlay exactly once (one setLoadingProgress(100), one hideLoading), on the
\* first check made after the wait and not before; every later check changes
\* nothing until enableAutoHide is called again.
C15_AutoHideOnce ==
    [][ /\ loading'.autoHides <= 1
        /\ loading'.fullCalls = loading'.autoHides
        /\ loading'.delay = DefaultDelay =>
              /\ loading'.lateCheck => loading'.autoHides = 1
              /\ ~loading'.earlyHide
        /\ (CheckAutoHide /\ loading.autoHides = 1) =>
              LoadingView(loading') = LoadingView(loading) ]_vars

\* the overlay was hidden by the auto-hide and checks were made after it
C15_Witness ==
    /\ loading.autoHides = 1 /\ loading.fullCalls = 1 /\ loading.delay = DefaultDelay
    /\ ~loading.autoHideEnabled /\ loading.display = "none" /\ loading.opacity = 0
    /\ loading.lateCheck /\ loading.now - loading.startTime > AutoHideWait + HideTimerDelay
    /\ loading.calls = 1

\* C16: after enableAutoHide(d), checkAutoHide hides the overlay on the first
\* call made more than d ms after enableAutoHide and on no earlier call.
C16_AutoHideAfterDelay ==
    /\ loading.lateCheck => loading.autoHides >= 1
    /\ ~loading.earlyHide

\* C17: after showLoading() has returned the overlay stays displayed (display
\* flex, opacity 1) until hideLoading() is called again.
C17_ShownStaysShown ==
    loading.shown => (loading.display = "flex" /\ loading.opacity = 1)

\* C18: whenever a shake ends, through stopShake() or through updateShake()
\* reaching the duration, isCurrentlyShaking() is false, the camera position
\* and rotation are the values captured when that shake was started and the
\* renderer element's transform is cleared; stopShake() with no shake active
\* changes nothing.
C18_ShakeEndRestores ==
    [][ /\ (shake.isShaking /\ ~shake'.isShaking) =>
              /\ shake'.camPos = shake.capturedPos
              /\ shake'.camRot = shake.capturedRot
              /\ shake'.transform = ""
        /\ (StopShake /\ ~shake.isShaking) => UNCHANGED shake ]_vars

\* a shake that displaced the camera and the renderer element has ended in
\* updateShake and everything is back
C18_Witness ==
    /\ ~shake.isShaking /\ shake.ended = "updateShake" /\ shake.displaced
    /\ shake.type = "both"
    /\ shake.camPos = shake.capturedPos /\ shake.camRot = shake.capturedRot
    /\ shake.transform = ""

\* C19: a running shake ends on the first updateShake(dt) call at which the
\* accumulated dt*1000 reaches its duration, and from then on updateShake
\* applies no displacement to the camera or the renderer element.
C19_ShakeEndsAtDuration ==
    [][ \A sp \in {-1, 1}, sr \in {-1, 1} :
          UpdateShake(FrameDelta, sp, sr) =>
             /\ shake.isShaking =>
                  (~shake'.isShaking <=> shake'.accum >= shake.duration)
             /\ ~shake.isShaking =>
                  /\ ~shake'.isShaking
                  /\ shake'.camPos = shake.camPos
                  /\ shake'.camRot = shake.camRot
                  /\ shake'.transform = shake.transform ]_vars

\* a shake has run to exactly its duration and updateShake was called again
C19_Witness ==
    /\ ~shake.isShaking /\ shake.ended = "updateShake" /\ shake.updatedAfterEnd
    /\ shake.accum = shake.duration /\ shake.duration = EntryShakeDuration
    /\ shake.displaced /\ shake.camPos = shake.capturedPos /\ shake.transform = ""

\* C20: customShake(intensity, duration, type, pattern) starts a shake with
\* exactly the intensity and the duration passed.
C20_CustomShakeExact ==
    [][ \A i \in CustomIntensities, d \in CustomDurations,
           t \in CustomTypes, p \in CustomPatterns :
          CustomShake(i, d, t, p) =>
             (shake'.isShaking /\ shake'.intensity = i /\ shake'.duration = d) ]_vars

\* ======================================================================
\* Properties of the aberration module
\* ======================================================================
\* nothing of an aberration animation is left: isAnimating is false, no
\* animate closure waits for a frame and no timer is pending
AberrationQuiescent ==
    /\ ~aberration.isAnimating
    /\ aberration.anims = <<>>
    /\ aberration.timers = <<>>

\* C21: with frames and timers firing and no further effect started, the
\* module is eventually quiescent and stays so: isAnimating false, no
\* animation frame and no return-to-base timer pending, whichever of the last
\* animation frame and the 1000 ms timer runs first. (The claim adds that
\* the amount is then the base amount; AberrationAtBase states that part,
\* the formula is the part that every ordering has to satisfy first.)
C21_AberrationSettles ==
    <>[]AberrationQuiescent

\* the amount given to the pass is aberrationData.baseAmount
AberrationAtBase ==
    aberration.passAmount = aberration.baseAmount

====
